---- MODULE Spec2Model ----
(***************************************************************************)
(* A model of redis_timeseries.TimeSeries (src/redis_timeseries.py): the   *)
(* time/key arithmetic, the write fan-out through a redis pipeline, the    *)
(* range read and the key scan, over a redis store with hashes and per-key *)
(* expiry.                                                                 *)
(*                                                                         *)
(* Time is counted in whole units (the "seconds" of the source); strings   *)
(* are sequences of one-character strings, so that building a redis key    *)
(* and stripping its prefix again are computed, not assumed.               *)
(***************************************************************************)
EXTENDS Integers, Sequences, FiniteSets, TLC

(***************************************************************************)
(* Bounds of the model.                                                    *)
(***************************************************************************)
\* Calls of record_hit made in one behaviour.
MaxWrites == 2
\* The clock runs from StartClock to StartClock + MaxTicks.
MaxTicks == 3
\* An explicit timestamp is tz_now() minus 0..MaxAgo units.
MaxAgo == 2
\* Offset of the machine's local time from UTC, in units (mktime/fromtimestamp).
LocalOffset == 1
\* The largest integer a hash field of the store holds (2^63 - 1 in redis,
\* scaled down): HINCRBY is refused when the sum would pass it.
HashMax == 9

(***************************************************************************)
(* Strings.                                                                *)
(***************************************************************************)
Digits == <<"0", "1", "2", "3", "4", "5", "6", "7", "8", "9">>

RECURSIVE StrNat(_)
StrNat(n) == IF n < 10 THEN <<Digits[n + 1]>>
             ELSE StrNat(n \div 10) \o <<Digits[(n % 10) + 1]>>

\* str(i) of an int.
Str(i) == IF i < 0 THEN <<"-">> \o StrNat(-i) ELSE StrNat(i)

\* sep.join(parts)
RECURSIVE Join(_, _)
Join(sep, parts) ==
    IF Len(parts) = 0 THEN <<>>
    ELSE IF Len(parts) = 1 THEN parts[1]
    ELSE parts[1] \o sep \o Join(sep, Tail(parts))

StartsWith(s, p) == Len(p) <= Len(s) /\ SubSeq(s, 1, Len(p)) = p

\* s.replace(old, ''), old not empty: every non-overlapping occurrence of old,
\* found left to right, is dropped.
RECURSIVE Replace(_, _)
Replace(s, old) ==
    IF s = <<>> THEN <<>>
    ELSE IF StartsWith(s, old) THEN Replace(SubSeq(s, Len(old) + 1, Len(s)), old)
    ELSE <<Head(s)>> \o Replace(Tail(s), old)

\* The store's KEYS pattern match: * matches any substring, any other character
\* of the patterns used here matches itself.
RECURSIVE GlobMatch(_, _)
GlobMatch(p, s) ==
    IF p = <<>> THEN s = <<>>
    ELSE IF Head(p) = "*"
         THEN GlobMatch(Tail(p), s) \/ (s # <<>> /\ GlobMatch(p, Tail(s)))
         ELSE s # <<>> /\ Head(s) = Head(p) /\ GlobMatch(Tail(p), Tail(s))

\* The characters of the model's strings, in code-point order.
Alphabet == <<"*", "-", "0", "1", "2", "3", "4", "5", "6", "7", "8", "9", ":",
              "a", "e", "h", "m", "n", "s", "t", "v">>

\* s < t in the order sorted() puts strings in.
RECURSIVE StrLess(_, _)
StrLess(s, t) ==
    IF t = <<>> THEN FALSE
    ELSE IF s = <<>> THEN TRUE
    ELSE LET Ord(ch) == CHOOSE i \in 1..Len(Alphabet) : Alphabet[i] = ch
         IN  IF Head(s) = Head(t) THEN StrLess(Tail(s), Tail(t))
             ELSE Ord(Head(s)) < Ord(Head(t))

(***************************************************************************)
(* Configuration: the constructor's arguments.                             *)
(***************************************************************************)
base_key == <<"t", "s">>

\* The granularity table, in its iteration order: a per-"minute" and a
\* per-"hour" granularity with scaled-down durations (ttl a multiple of
\* duration, as the table of the source).
granularities ==
    << [name |-> <<"1", "m">>, ttl |-> 3, duration |-> 1],
       [name |-> <<"1", "h">>, ttl |-> 4, duration |-> 2] >>

Grans == 1..Len(granularities)

Max(S) == CHOOSE x \in S : \A y \in S : y <= x

MaxTtl == Max({granularities[g].ttl : g \in Grans})

\* The first clock value of a behaviour: late enough that no bucket of a
\* query window is the epoch itself (bucket 0 is falsy in round_time).
StartClock == MaxTtl + MaxAgo + LocalOffset + 1

(***************************************************************************)
(* Timestamps: None, a number of seconds, or a datetime (its wall-clock    *)
(* fields, counted in seconds).                                            *)
(***************************************************************************)
None == [k |-> "none", v |-> 0]
Num(n) == [k |-> "num", v |-> n]
Dt(w) == [k |-> "dt", v |-> w]

\* tz_now() when the clock (UTC) reads c: the UTC wall clock with pytz, the
\* local wall clock without.
tz_now(c, withPytz) == IF withPytz THEN Dt(c) ELSE Dt(c + LocalOffset)

\* mktime(dt.timetuple()) reads the datetime's fields as local time; a number
\* passes through.
dt_to_unix(dt) == IF dt.k = "dt" THEN dt.v - LocalOffset ELSE dt.v

\* datetime.fromtimestamp(n, utc), or the naive local datetime without pytz.
unix_to_dt(n, withPytz) == IF withPytz THEN Dt(n) ELSE Dt(n + LocalOffset)

\* Python's truth value of a timestamp: None and the number 0 are false.
Truthy(dt) == dt.k = "dt" \/ (dt.k = "num" /\ dt.v # 0)

\* round_time(dt, precision), tz_now() returning now when it is called.
round_time(dt, precision, now) ==
    LET seconds == dt_to_unix(IF Truthy(dt) THEN dt ELSE now)
    IN  (seconds \div precision) * precision

\* seconds, minutes, hours, days
seconds(i) == i
minutes(i) == i * seconds(60)
hours(i) == i * minutes(60)
days(i) == i * hours(24)

\* round_time_with_tz that floors on the UTC clock.
round_time_with_tz_Utc(instant, precision, offset) ==
    round_time(Num(instant), precision, None)

\* round_time with a timezone, the zone given by its UTC offset at the
\* instant (seconds east of UTC): the instant, in epoch seconds, is shifted
\* by the offset, floored to the precision and shifted back.
round_time_with_tz(instant, precision, offset) ==
    round_time(Num(instant + offset), precision, None) - offset

\* The bucket starts of get_buckets of an engine with a timezone: count
\* buckets, duration apart, up to the one that holds the instant.
get_buckets_tz(duration, count, instant, offset) ==
    LET first == round_time_with_tz(instant, duration, offset) - (count * duration)
    IN  [i \in 1..count |-> first + (i * duration)]

\* get_key that rounds the shard epoch by the duration.
get_key_Duration(key, timestamp, g, now) ==
    LET timestamp_key == round_time(timestamp, granularities[g].duration, now)
    IN  Join(<<":">>, <<base_key, granularities[g].name, Str(timestamp_key), key>>)

\* TimeSeries.get_key
get_key(key, timestamp, g, now) ==
    LET ttl == granularities[g].ttl
        timestamp_key == round_time(timestamp, ttl, now)
    IN  Join(<<":">>, <<base_key, granularities[g].name, Str(timestamp_key), key>>)

(***************************************************************************)
(* The redis store: key -> [hash: field -> integer, exp: the clock value   *)
(* at which the key expires, or NoExpiry].  Commands travel in pipelines   *)
(* (sequences of commands), which redis runs as one MULTI/EXEC unit.       *)
(***************************************************************************)
NoExpiry == <<>>

HIncrBy(key, field, amount) == [cmd |-> "hincrby", key |-> key, field |-> field, arg |-> amount]
Expire(key, ttl) == [cmd |-> "expire", key |-> key, field |-> 0, arg |-> ttl]

\* HGET key field: <<the value>>, or Nil.
Nil == <<>>
HGet(st, key, field) ==
    IF key \in DOMAIN st /\ field \in DOMAIN st[key].hash
    THEN <<st[key].hash[field]>> ELSE Nil

\* parse_result
parse_result(val) == IF val = Nil THEN 0 ELSE val[1]

\* Apply with HSET in the place of HINCRBY.
Apply_Set(st, c, now) ==
    IF c.cmd = "hincrby"
    THEN IF c.key \in DOMAIN st
         THEN [st EXCEPT ![c.key].hash =
                  [f \in DOMAIN @ \cup {c.field} |-> IF f = c.field THEN c.arg ELSE @[f]]]
         ELSE [k \in DOMAIN st \cup {c.key} |->
                  IF k = c.key
                  THEN [hash |-> [f \in {c.field} |-> c.arg], exp |-> NoExpiry]
                  ELSE st[k]]
    ELSE IF c.key \in DOMAIN st
         THEN IF c.arg <= 0
              THEN [k \in DOMAIN st \ {c.key} |-> st[k]]
              ELSE [st EXCEPT ![c.key].exp = <<now + c.arg>>]
         ELSE st

\* HINCRBY whose sum does not fit the field: the store refuses the command
\* ("increment or decrement would overflow") and leaves the field alone.
Refused(st, c) ==
    /\ c.cmd = "hincrby"
    /\ \/ parse_result(HGet(st, c.key, c.field)) + c.arg > HashMax
       \/ parse_result(HGet(st, c.key, c.field)) + c.arg < 0 - HashMax - 1

\* Apply with HINCRBY adding the size of the amount, whatever its sign.
Apply_Abs(st, c, now) ==
    LET size == IF c.arg < 0 THEN 0 - c.arg ELSE c.arg
    IN  IF c.cmd = "hincrby"
        THEN IF c.key \in DOMAIN st
             THEN LET h == st[c.key].hash
                      old == IF c.field \in DOMAIN h THEN h[c.field] ELSE 0
                  IN  [st EXCEPT ![c.key].hash =
                          [f \in DOMAIN h \cup {c.field} |->
                              IF f = c.field THEN old + size ELSE h[f]]]
             ELSE [k \in DOMAIN st \cup {c.key} |->
                      IF k = c.key
                      THEN [hash |-> [f \in {c.field} |-> size], exp |-> NoExpiry]
                      ELSE st[k]]
        ELSE IF c.key \in DOMAIN st
             THEN [st EXCEPT ![c.key].exp = <<now + c.arg>>]
             ELSE st

\* One command applied to the store st when the clock reads now.
Apply(st, c, now) ==
    IF Refused(st, c) THEN st
    ELSE IF c.cmd = "hincrby"
    THEN IF c.key \in DOMAIN st
         THEN LET h == st[c.key].hash
                  old == IF c.field \in DOMAIN h THEN h[c.field] ELSE 0
                  new == [f \in DOMAIN h \cup {c.field} |->
                             IF f = c.field THEN old + c.arg ELSE h[f]]
              IN  [st EXCEPT ![c.key].hash = new]
         ELSE [k \in DOMAIN st \cup {c.key} |->
                  IF k = c.key
                  THEN [hash |-> [f \in {c.field} |-> c.arg], exp |-> NoExpiry]
                  ELSE st[k]]
    ELSE IF c.key \in DOMAIN st
         THEN IF c.arg <= 0
              THEN [k \in DOMAIN st \ {c.key} |-> st[k]]
              ELSE [st EXCEPT ![c.key].exp = <<now + c.arg>>]
         ELSE st

\* EXEC: the queued commands, in order, as one unit.  A command the store
\* refuses does not stop or undo the others.
RECURSIVE ApplyAll(_, _, _)
ApplyAll(st, cmds, now) ==
    IF cmds = <<>> THEN st
    ELSE ApplyAll(Apply(st, Head(cmds), now), Tail(cmds), now)

\* Whether the store refuses one of the commands of the unit.
RECURSIVE AnyRefused(_, _, _)
AnyRefused(st, cmds, now) ==
    /\ cmds # <<>>
    /\ \/ Refused(st, Head(cmds))
       \/ AnyRefused(Apply(st, Head(cmds), now), Tail(cmds), now)

\* pipe.execute(): the new store and the error raised, if any.  An empty
\* pipeline makes no round trip; when the store is not reached (~ok) nothing
\* is applied; a refused command is raised once the unit has run.
pipe_execute(st, cmds, now, ok) ==
    IF cmds = <<>> THEN [store |-> st, err |-> ""]
    ELSE IF ~ok THEN [store |-> st, err |-> "ConnectionError"]
    ELSE [store |-> ApplyAll(st, cmds, now),
          err |-> IF AnyRefused(st, cmds, now) THEN "ResponseError" ELSE ""]

\* The keys the store has dropped by the time the clock reads now.
Dead(st, now) == {k \in DOMAIN st : st[k].exp # NoExpiry /\ st[k].exp[1] <= now}

\* The store once its expired keys are gone.
Purge(st, now) == [k \in DOMAIN st \ Dead(st, now) |-> st[k]]

\* KEYS pattern
Keys(st, pattern) == {k \in DOMAIN st : GlobMatch(pattern, k)}


(***************************************************************************)
(* TimeSeries: the operations as functions of their arguments, the store   *)
(* and the clock.                                                          *)
(***************************************************************************)
\* record_hit_from that never queues the expire.
RECURSIVE record_hit_from_Forever(_, _, _, _, _, _)
record_hit_from_Forever(g, key, timestamp, count, reads, withPytz) ==
    IF g > Len(granularities) THEN <<>>
    ELSE LET props == granularities[g]
             hkey == get_key(key, timestamp, g, tz_now(reads[2 * g - 1], withPytz))
             bucket == round_time(timestamp, props.duration, tz_now(reads[2 * g], withPytz))
         IN  <<HIncrBy(hkey, bucket, count)>>
             \o record_hit_from_Forever(g + 1, key, timestamp, count, reads, withPytz)

\* record_hit_from that keeps a key for the duration of one bucket.
RECURSIVE record_hit_from_Brief(_, _, _, _, _, _)
record_hit_from_Brief(g, key, timestamp, count, reads, withPytz) ==
    IF g > Len(granularities) THEN <<>>
    ELSE LET props == granularities[g]
             hkey == get_key(key, timestamp, g, tz_now(reads[2 * g - 1], withPytz))
             bucket == round_time(timestamp, props.duration, tz_now(reads[2 * g], withPytz))
         IN  <<HIncrBy(hkey, bucket, count), Expire(hkey, props.duration)>>
             \o record_hit_from_Brief(g + 1, key, timestamp, count, reads, withPytz)

\* record_hit_from that stops after the first granularity.
record_hit_from_One(g, key, timestamp, count, reads, withPytz) ==
    IF g > 1 THEN <<>>
    ELSE LET props == granularities[g]
             hkey == get_key(key, timestamp, g, tz_now(reads[2 * g - 1], withPytz))
             bucket == round_time(timestamp, props.duration, tz_now(reads[2 * g], withPytz))
         IN  <<HIncrBy(hkey, bucket, count), Expire(hkey, props.ttl)>>

\* The commands record_hit queues: for every granularity, in the table's order,
\* the increment of the bucket's field and the refresh of the key's expiry.
\* round_time calls tz_now() itself when the timestamp is None: reads[2g-1] is
\* the clock when get_key runs for granularity g, reads[2g] when the bucket is
\* rounded.
RECURSIVE record_hit_from(_, _, _, _, _, _)
record_hit_from(g, key, timestamp, count, reads, withPytz) ==
    IF g > Len(granularities) THEN <<>>
    ELSE LET props == granularities[g]
             hkey == get_key(key, timestamp, g, tz_now(reads[2 * g - 1], withPytz))
             bucket == round_time(timestamp, props.duration, tz_now(reads[2 * g], withPytz))
         IN  <<HIncrBy(hkey, bucket, count), Expire(hkey, props.ttl)>>
             \o record_hit_from(g + 1, key, timestamp, count, reads, withPytz)

record_hit_cmds(key, timestamp, count, reads, withPytz) ==
    record_hit_from(1, key, timestamp, count, reads, withPytz)

\* decrease(key, amount, timestamp): increase (record_hit) of the amount negated.
decrease_cmds(key, timestamp, amount, reads, withPytz) ==
    record_hit_cmds(key, timestamp, 0 - amount, reads, withPytz)

\* pipeline_for that takes self.chain whatever execute says.
pipeline_for_Chain(own, execute) == own

\* pipeline_for that takes a new pipeline whatever execute says.
pipeline_for_New(own, execute) == <<>>

\* pipe = self.client.pipeline() if execute else self.chain: the commands
\* the pipeline of the call holds already, own being those of self.chain.
pipeline_for(own, execute) == IF execute THEN <<>> ELSE own

\* CountExceeds that lets one bucket too many through.
CountExceeds_Late(g, count) ==
    count > (granularities[g].ttl \div granularities[g].duration) + 1

\* The check both get_hits and scan_keys start with.
CountExceeds(g, count) ==
    count > (granularities[g].ttl \div granularities[g].duration)

\* Buckets with the bucket appended before it is advanced.
Buckets_Early(g, count, timestamp, now) ==
    LET duration == granularities[g].duration
        bucket == round_time(timestamp, duration, now) - (count * duration)
    IN  [i \in 1..count |-> bucket + (i - 1) * duration]

\* The buckets get_hits and scan_keys walk through, oldest first.
Buckets(g, count, timestamp, now) ==
    LET duration == granularities[g].duration
        bucket == round_time(timestamp, duration, now) - (count * duration)
    IN  [i \in 1..count |-> bucket + i * duration]

\* get_hits that leaves out the buckets the store holds nothing for.
get_hits_Sparse(st, key, g, count, timestamp, now, withPytz) ==
    IF CountExceeds(g, count)
    THEN [err |-> "ValueError", trips |-> 0, result |-> <<>>]
    ELSE LET buckets == Buckets(g, count, timestamp, now)
             Found(b) == HGet(st, get_key(key, Num(b), g, now), b) # Nil
         IN  [err |-> "",
              trips |-> IF count > 0 THEN 1 ELSE 0,
              result |-> [i \in 1..Len(SelectSeq(buckets, Found)) |->
                  LET b == SelectSeq(buckets, Found)[i]
                  IN  <<unix_to_dt(b, withPytz),
                        parse_result(HGet(st, get_key(key, Num(b), g, now), b))>>]]

\* TimeSeries.get_hits: the error it raises ("" for none), the round trips to
\* the store it makes, and the list it returns.
get_hits(st, key, g, count, timestamp, now, withPytz) ==
    IF CountExceeds(g, count)
    THEN [err |-> "ValueError", trips |-> 0, result |-> <<>>]
    ELSE LET buckets == Buckets(g, count, timestamp, now)
         IN  [err |-> "",
              trips |-> IF count > 0 THEN 1 ELSE 0,
              result |-> [i \in 1..count |->
                  <<unix_to_dt(buckets[i], withPytz),
                    parse_result(HGet(st, get_key(key, Num(buckets[i]), g, now),
                                      buckets[i]))>>]]

\* sum(...) of a list of numbers
RECURSIVE Sum(_)
Sum(xs) == IF xs = <<>> THEN 0 ELSE Head(xs) + Sum(Tail(xs))

\* get_total_hits that returns the amount of the newest bucket.
get_total_hits_Newest(st, key, g, count, timestamp, now, withPytz) ==
    LET r == get_hits(st, key, g, count, timestamp, now, withPytz)
    IN  [err |-> r.err, trips |-> r.trips,
         result |-> IF r.err = "" /\ count > 0 THEN r.result[count][2] ELSE 0]

\* TimeSeries.get_total_hits
get_total_hits(st, key, g, count, timestamp, now, withPytz) ==
    LET r == get_hits(st, key, g, count, timestamp, now, withPytz)
    IN  [err |-> r.err, trips |-> r.trips,
         result |-> IF r.err = "" THEN Sum([i \in 1..Len(r.result) |-> r.result[i][2]])
                    ELSE 0]

\* StripAll that strips the base key and the granularity only.
StripAll_Epoch(result, prefixes) ==
    LET Upto2(p) == CHOOSE n \in 1..Len(p) :
            /\ p[n] = ":"
            /\ Cardinality({i \in 1..n : p[i] = ":"}) = 2
        prefix == CHOOSE x \in prefixes : TRUE
    IN  Replace(result, SubSeq(prefix, 1, Upto2(prefix)))

\* result.replace(prefix, '') for every prefix of the set, one after the other.
RECURSIVE StripAll(_, _)
StripAll(result, prefixes) ==
    IF prefixes = {} THEN result
    ELSE LET prefix == CHOOSE x \in prefixes : TRUE
         IN  StripAll(Replace(result, prefix), prefixes \ {prefix})

\* sorted(set of strings)
RECURSIVE Sorted(_)
Sorted(S) ==
    IF S = {} THEN <<>>
    ELSE LET least == CHOOSE x \in S : \A y \in S \ {x} : StrLess(x, y)
         IN  <<least>> \o Sorted(S \ {least})

\* TimeSeries.scan_keys
scan_keys(st, g, count, search, timestamp, now) ==
    IF CountExceeds(g, count)
    THEN [err |-> "ValueError", trips |-> 0, result |-> <<>>]
    ELSE LET buckets == Buckets(g, count, timestamp, now)
             hkeys == {get_key(search, Num(buckets[i]), g, now) : i \in 1..count}
             prefixes == {get_key(<<>>, Num(buckets[i]), g, now) : i \in 1..count}
             results == UNION {Keys(st, hkey) : hkey \in hkeys}
             parsed == {StripAll(result, prefixes) : result \in results}
         IN  IF hkeys = {}
             \* reduce() of the empty list of replies
             THEN [err |-> "TypeError", trips |-> 0, result |-> <<>>]
             ELSE [err |-> "", trips |-> 1, result |-> Sorted(parsed)]

\* props_for that falls back on the first granularity.
props_for_Default(name) ==
    IF \E g \in Grans : granularities[g].name = name
    THEN [err |-> "", g |-> CHOOSE g \in Grans : granularities[g].name = name]
    ELSE [err |-> "", g |-> 1]

\* props = self.granularities[granularity]: the granularity of that name, or
\* the KeyError of the dictionary.
props_for(name) ==
    IF \E g \in Grans : granularities[g].name = name
    THEN [err |-> "", g |-> CHOOSE g \in Grans : granularities[g].name = name]
    ELSE [err |-> "KeyError", g |-> 0]

\* The reads as called: with the name of a granularity.
get_hits_of(st, key, name, count, timestamp, now, withPytz) ==
    LET props == props_for(name)
    IN  IF props.err # "" THEN [err |-> props.err, trips |-> 0, result |-> <<>>]
        ELSE get_hits(st, key, props.g, count, timestamp, now, withPytz)

get_total_hits_of(st, key, name, count, timestamp, now, withPytz) ==
    LET r == get_hits_of(st, key, name, count, timestamp, now, withPytz)
    IN  [err |-> r.err, trips |-> r.trips,
         result |-> IF r.err = "" THEN Sum([i \in 1..Len(r.result) |-> r.result[i][2]])
                    ELSE 0]

scan_keys_of(st, name, count, search, timestamp, now) ==
    LET props == props_for(name)
    IN  IF props.err # "" THEN [err |-> props.err, trips |-> 0, result |-> <<>>]
        ELSE scan_keys(st, props.g, count, search, timestamp, now)

(***************************************************************************)
(* The state.                                                              *)
(***************************************************************************)
\* The clients: each holds its own TimeSeries over the one store.
Clients == {"c1", "c2"}

\* The series names recorded, and the patterns searched for.
Ev1 == <<"e", "v", ":", "1">>
Ev2 == <<"e", "v", ":", "2">>
En1 == <<"e", "n", ":", "1">>
Series == {Ev1, Ev2, En1}
Searches == { <<"*">>, <<"e", "v", ":", "*">> }

\* The amounts written.
Amounts == {1, 2}

VARIABLES
    clock,      \* the time (UTC), read by tz_now() and by the store's expiry
    pytz,       \* whether the pytz import succeeded
    store,      \* the redis database
    chain,      \* chain[c]: the commands in self.chain of client c
    last,       \* the call made last, its arguments and its outcome
    \* history, read by the properties only
    nWrites,    \* calls of record_hit so far
    queued,     \* queued[c]: the writes whose commands are in chain[c]
    applied,    \* <<series, timestamp>> -> the amount the store was sent for it
    implicit,   \* the store was sent a write that saw the clock advance
    imm,        \* the store had every record_hit been executed at once
    lost,       \* a key has expired, in store or in imm
    failed      \* a submission of writes has failed

vars == <<clock, pytz, store, chain, last, nWrites, queued, applied, implicit,
          imm, lost, failed>>

\* last, when no call has been made.  For record_hit: its arguments, whether
\* the clock advanced during the call and whether the store was empty before
\* it; for execute: the number of writes in the chain; for a read: whether
\* count * duration > ttl, and whether the granularity named is unknown; for
\* a rounding: the value returned.
Idle == [op |-> "", err |-> "", trips |-> 0, key |-> <<>>, count |-> 0,
         timestamp |-> None, execute |-> FALSE, drifted |-> FALSE, fresh |-> FALSE,
         exceeds |-> FALSE, unknown |-> FALSE, value |-> 0]

\* The names a caller gives for a granularity: those of the table and one
\* that is not in it.
Names == {granularities[g].name : g \in Grans} \cup {<<"1", "d">>}
Unknown(name) == \A g \in Grans : granularities[g].name # name

\* count * duration > ttl
Exceeds(g, count) == count * granularities[g].duration > granularities[g].ttl

\* The timestamp a caller passes while the clock reads c: none, or the
\* datetime tz_now() - ago.
Omit == [omit |-> TRUE, ago |-> 0]
Ago(n) == [omit |-> FALSE, ago |-> n]
Timestamp(a, c, withPytz) ==
    IF a.omit THEN None ELSE Dt(tz_now(c, withPytz).v - a.ago)

\* The counts a caller asks for: up to one more than any granularity allows.
Counts == 0..(Max({granularities[g].ttl \div granularities[g].duration : g \in Grans}) + 1)

\* Adds amount to the entry of <<key, timestamp>> in the history of writes.
Credit(hist, w) ==
    LET e == <<w.key, w.timestamp>>
    IN  [x \in DOMAIN hist \cup {e} |->
            IF x = e THEN (IF e \in DOMAIN hist THEN hist[e] ELSE 0) + w.count
            ELSE hist[x]]

RECURSIVE CreditAll(_, _)
CreditAll(hist, ws) ==
    IF ws = <<>> THEN hist ELSE CreditAll(Credit(hist, Head(ws)), Tail(ws))

Init ==
    /\ clock = StartClock
    /\ pytz \in BOOLEAN
    /\ store = <<>>
    /\ chain = [c \in Clients |-> <<>>]
    /\ last = Idle
    /\ nWrites = 0
    /\ queued = [c \in Clients |-> <<>>]
    /\ applied = <<>>
    /\ implicit = FALSE
    /\ imm = <<>>
    /\ lost = FALSE
    /\ failed = FALSE

\* The clock advances; the store drops the keys whose time has come.
Tick ==
    /\ clock < StartClock + MaxTicks
    /\ clock' = clock + 1
    /\ store' = Purge(store, clock')
    /\ imm' = Purge(imm, clock')
    /\ lost' = (lost \/ Dead(store, clock') # {} \/ Dead(imm, clock') # {})
    /\ last' = [Idle EXCEPT !.op = "tick"]
    /\ UNCHANGED <<pytz, chain, nWrites, queued, applied, implicit, failed>>

\* record_hit(key, timestamp, count, execute) by client c.  With the timestamp
\* omitted the clock may advance while the call runs: drift = 0 when it does
\* not, and otherwise the number of tz_now() calls that read the old time.
\* ok: whether the store accepts the submission.
RecordHit(c, key, timestamp, count, execute, drift, ok) ==
    LET n == 2 * Len(granularities)
        reads == [i \in 1..n |-> IF drift # 0 /\ i > drift THEN clock + 1 ELSE clock]
        cmds == record_hit_cmds(key, timestamp, count, reads, pytz)
        \* for the history: the instant of the write, when it has one
        w == [key |-> key, count |-> count, drifted |-> drift # 0,
              timestamp |-> IF timestamp = None THEN tz_now(clock, pytz) ELSE timestamp]
        now == IF drift = 0 THEN clock ELSE clock + 1
        pipe == pipeline_for(chain[c], execute) \o cmds
        r == IF execute THEN pipe_execute(Purge(store, now), pipe, now, ok)
                        ELSE [store |-> Purge(store, now), err |-> ""]
    IN  /\ drift # 0 => (timestamp = None /\ clock < StartClock + MaxTicks)
        /\ ~execute => ok
        /\ nWrites' = nWrites + 1
        /\ clock' = now
        /\ imm' = ApplyAll(Purge(imm, now), cmds, now)
        /\ store' = r.store
        /\ IF execute
           THEN /\ applied' = IF r.err = "" /\ ~w.drifted THEN Credit(applied, w)
                                                            ELSE applied
                /\ implicit' = (implicit \/ (ok /\ w.drifted))
                /\ failed' = (failed \/ r.err # "")
                /\ UNCHANGED <<chain, queued>>
           ELSE /\ chain' = [chain EXCEPT ![c] = pipe]
                /\ queued' = [queued EXCEPT ![c] = Append(@, w)]
                /\ UNCHANGED <<applied, implicit, failed>>
        /\ lost' = (lost \/ Dead(store, now) # {} \/ Dead(imm, now) # {})
        /\ last' = [Idle EXCEPT !.op = "record_hit",
                       !.err = r.err,
                       !.trips = IF execute THEN 1 ELSE 0,
                       !.key = key, !.count = count, !.timestamp = timestamp,
                       !.execute = execute, !.drifted = (drift # 0),
                       !.fresh = (store = <<>>)]
        /\ UNCHANGED pytz

\* decrease(key, amount, timestamp, execute) by client c.
Decrease(c, key, timestamp, amount, execute, drift, ok) ==
    RecordHit(c, key, timestamp, 0 - amount, execute, drift, ok)

\* execute() that keeps the chain it has submitted.
new_chain_Kept(own) == own

\* self.chain after execute(): a new pipeline of the client, with no command.
new_chain(own) == <<>>

\* execute() by client c: the chain is submitted and replaced by a new one.  An
\* empty pipeline executes without a round trip; a pipeline empties itself
\* when its submission fails.
Execute(c, ok) ==
    LET r == pipe_execute(store, chain[c], clock, ok)
    IN  /\ chain[c] = <<>> => ok
        /\ store' = r.store
        /\ chain' = [chain EXCEPT ![c] = new_chain(@)]
        /\ queued' = [queued EXCEPT ![c] = <<>>]
        /\ applied' = IF r.err = ""
                       THEN CreditAll(applied, SelectSeq(queued[c], LAMBDA w : ~w.drifted))
                       ELSE applied
        /\ implicit' = (implicit \/ (ok /\ \E i \in 1..Len(queued[c]) : queued[c][i].drifted))
        /\ failed' = (failed \/ r.err # "")
        /\ last' = [Idle EXCEPT !.op = "execute", !.err = r.err,
                       !.trips = IF chain[c] = <<>> THEN 0 ELSE 1,
                       !.count = Len(queued[c])]
        /\ UNCHANGED <<clock, pytz, nWrites, imm, lost>>

\* get_hits(key, granularity, count, timestamp)
GetHits(key, g, count, timestamp) ==
    LET r == get_hits(store, key, g, count, timestamp, tz_now(clock, pytz), pytz)
    IN  /\ last' = [Idle EXCEPT !.op = "get_hits", !.err = r.err, !.trips = r.trips,
                       !.exceeds = Exceeds(g, count)]
        /\ UNCHANGED <<clock, pytz, store, chain, nWrites, queued, applied, implicit,
                       imm, lost, failed>>

\* get_total_hits(key, granularity, count, timestamp)
GetTotalHits(key, g, count, timestamp) ==
    LET r == get_total_hits(store, key, g, count, timestamp, tz_now(clock, pytz), pytz)
    IN  /\ last' = [Idle EXCEPT !.op = "get_total_hits", !.err = r.err,
                       !.trips = r.trips, !.exceeds = Exceeds(g, count)]
        /\ UNCHANGED <<clock, pytz, store, chain, nWrites, queued, applied, implicit,
                       imm, lost, failed>>

\* scan_keys(granularity, count, search, timestamp)
ScanKeys(g, count, search, timestamp) ==
    LET r == scan_keys(store, g, count, search, timestamp, tz_now(clock, pytz))
    IN  /\ last' = [Idle EXCEPT !.op = "scan_keys", !.err = r.err, !.trips = r.trips,
                       !.exceeds = Exceeds(g, count)]
        /\ UNCHANGED <<clock, pytz, store, chain, nWrites, queued, applied, implicit,
                       imm, lost, failed>>

\* The reads called with the name of a granularity.
GetHitsOf(key, name, count, timestamp) ==
    LET r == get_hits_of(store, key, name, count, timestamp, tz_now(clock, pytz), pytz)
    IN  /\ last' = [Idle EXCEPT !.op = "get_hits", !.err = r.err, !.trips = r.trips,
                       !.unknown = Unknown(name)]
        /\ UNCHANGED <<clock, pytz, store, chain, nWrites, queued, applied, implicit,
                       imm, lost, failed>>

GetTotalHitsOf(key, name, count, timestamp) ==
    LET r == get_total_hits_of(store, key, name, count, timestamp, tz_now(clock, pytz), pytz)
    IN  /\ last' = [Idle EXCEPT !.op = "get_total_hits", !.err = r.err,
                       !.trips = r.trips, !.unknown = Unknown(name)]
        /\ UNCHANGED <<clock, pytz, store, chain, nWrites, queued, applied, implicit,
                       imm, lost, failed>>

ScanKeysOf(name, count, search, timestamp) ==
    LET r == scan_keys_of(store, name, count, search, timestamp, tz_now(clock, pytz))
    IN  /\ last' = [Idle EXCEPT !.op = "scan_keys", !.err = r.err, !.trips = r.trips,
                       !.unknown = Unknown(name)]
        /\ UNCHANGED <<clock, pytz, store, chain, nWrites, queued, applied, implicit,
                       imm, lost, failed>>

\* round_time(dt, precision)
RoundTime(dt, precision) ==
    /\ last' = [Idle EXCEPT !.op = "round_time", !.timestamp = dt, !.count = precision,
                   !.value = round_time(dt, precision, tz_now(clock, pytz))]
    /\ UNCHANGED <<clock, pytz, store, chain, nWrites, queued, applied, implicit,
                   imm, lost, failed>>

\* The instants of 2017-07-16 (UTC), on the hour and one minute before it,
\* and the state when the clock reads one of them.
Jul16 == days(17363)
Instants == {Jul16 + hours(h) - minutes(m) : h \in 0..24, m \in {0, 1}}
InitAt(instants) ==
    /\ clock \in instants
    /\ pytz \in BOOLEAN
    /\ store = <<>>
    /\ chain = [c \in Clients |-> <<>>]
    /\ last = Idle
    /\ nWrites = 0
    /\ queued = [c \in Clients |-> <<>>]
    /\ applied = <<>>
    /\ implicit = FALSE
    /\ imm = <<>>
    /\ lost = FALSE
    /\ failed = FALSE

\* The UTC offsets of the zones, and the precisions.
Offsets == {0 - hours(4), 0, hours(2)}
Precisions == {minutes(1), hours(1), hours(6), days(1)}

\* round_time_with_tz(now, precision, tz)
RoundTimeWithTz(precision, offset) ==
    /\ last' = [Idle EXCEPT !.op = "round_time_with_tz", !.count = precision,
                   !.value = round_time_with_tz(clock, precision, offset)]
    /\ UNCHANGED <<clock, pytz, store, chain, nWrites, queued, applied, implicit,
                   imm, lost, failed>>

\* get_buckets of a 1-day granularity of an engine with a timezone: the start
\* of the newest bucket.
GetBucketsTz(count, offset) ==
    /\ last' = [Idle EXCEPT !.op = "get_buckets", !.count = count,
                   !.value = get_buckets_tz(days(1), count, clock, offset)[count]]
    /\ UNCHANGED <<clock, pytz, store, chain, nWrites, queued, applied, implicit,
                   imm, lost, failed>>

(***************************************************************************)
(* The specifications: the same operations over different sets of inputs.  *)
(***************************************************************************)
\* The clock and the writes: the clients C make at most N calls of record_hit,
\* for the series S with the amounts A at the timestamps W, executed at once
\* or not (E); a call may see the clock advance (drifts D) and a submission
\* may fail (outcomes O).
Writes(N, C, S, A, W, E, D, O) ==
    \/ Tick
    \/ \E c \in C, key \in S, count \in A, execute \in E,
          ok \in O, a \in W, drift \in D :
            /\ nWrites < N
            /\ RecordHit(c, key, Timestamp(a, clock, pytz), count, execute, drift, ok)
    \/ \E c \in C, ok \in O : Execute(c, ok)

\* The range reads of the series S at the timestamps R.
Reads(S, R) ==
    \/ \E key \in S, g \in Grans, count \in Counts, a \in R :
            GetHits(key, g, count, Timestamp(a, clock, pytz))
    \/ \E key \in S, g \in Grans, count \in Counts, a \in R :
            GetTotalHits(key, g, count, Timestamp(a, clock, pytz))

\* The scans at the timestamps R.
Scans(R) ==
    \E g \in Grans, count \in Counts, search \in Searches, a \in R :
        ScanKeys(g, count, search, Timestamp(a, clock, pytz))

\* One client that executes every write at once, and reads.
Next ==
    \/ Writes(MaxWrites, {"c1"}, {Ev1, En1}, Amounts, {Omit, Ago(MaxAgo)}, {TRUE}, {0}, {TRUE})
    \/ Reads({Ev1, En1}, {Omit})

Spec == Init /\ [][Next]_vars

\* One client that records the three series at the clock's time, scans and
\* reads.
NextScan ==
    \/ Writes(MaxWrites + 1, {"c1"}, Series, {1}, {Omit}, {TRUE}, {0}, {TRUE})
    \/ Scans({Omit})
    \/ \E g \in Grans, count \in Counts : GetHits(Ev1, g, count, None)

SpecScan == Init /\ [][NextScan]_vars

\* One client whose writes are executed at once or left in the chain until
\* execute(), with reads and scans in between.
NextDefer ==
    \/ Writes(MaxWrites, {"c1"}, {Ev1, En1}, {1}, {Omit}, BOOLEAN, {0}, {TRUE})
    \/ \E g \in Grans : GetHits(Ev1, g, 1, None)
    \/ \E g \in Grans : GetTotalHits(Ev1, g, 1, None)
    \/ \E g \in Grans : ScanKeys(g, 1, <<"*">>, None)

SpecDefer == Init /\ [][NextDefer]_vars

\* Two clients on the one store, writing one series with amounts up to the
\* largest the store holds; a submission may not reach the store.
NextClients ==
    \/ Writes(MaxWrites, Clients, {Ev1}, {1, HashMax}, {Omit}, BOOLEAN, {0}, BOOLEAN)
    \/ \E g \in Grans : GetTotalHits(Ev1, g, 1, None)

SpecClients == Init /\ [][NextClients]_vars

\* Two clients on the one store, writing one series at given timestamps,
\* each write executed at once or left in its client's chain until that
\* client's execute(); the submissions interleave in every order.
NextRace ==
    \/ Writes(MaxWrites, Clients, {Ev1}, Amounts, {Ago(0), Ago(MaxAgo)}, BOOLEAN, {0}, {TRUE})
    \/ \E g \in Grans : GetTotalHits(Ev1, g, 1, None)

SpecRace == Init /\ [][NextRace]_vars

\* One client that increases and decreases, every write executed at once.
NextSigned ==
    \/ Writes(MaxWrites, {"c1"}, {Ev1}, Amounts, {Omit, Ago(MaxAgo)}, {TRUE}, {0}, {TRUE})
    \/ \E key \in {Ev1}, amount \in Amounts, a \in {Omit, Ago(MaxAgo)} :
            /\ nWrites < MaxWrites
            /\ Decrease("c1", key, Timestamp(a, clock, pytz), amount, TRUE, 0, TRUE)
    \/ \E g \in Grans : GetTotalHits(Ev1, g, 1, None)

SpecSigned == Init /\ [][NextSigned]_vars

\* One client, with writes pending or executed, that reads and scans by the
\* name of a granularity, known or not.
NextNamed ==
    \/ Writes(MaxWrites, {"c1"}, {Ev1}, {1}, {Omit}, BOOLEAN, {0}, {TRUE})
    \/ \E name \in Names, count \in {1, 2} : GetHitsOf(Ev1, name, count, None)
    \/ \E name \in Names, count \in {1, 2} : GetTotalHitsOf(Ev1, name, count, None)
    \/ \E name \in Names, count \in {1, 2} : ScanKeysOf(name, count, <<"*">>, None)

SpecNamed == Init /\ [][NextNamed]_vars

\* Rounding with a timezone, at the instants of one day.
NextTz ==
    \/ \E precision \in Precisions, offset \in Offsets : RoundTimeWithTz(precision, offset)
    \/ \E count \in 1..5, offset \in Offsets : GetBucketsTz(count, offset)

SpecTz == InitAt(Instants) /\ [][NextTz]_vars

\* round_time of numbers and datetimes from the epoch up to the clock's time,
\* to every precision up to the longest ttl.
NextRound ==
    \/ Tick
    \/ \E n \in 0..(StartClock + MaxTicks), precision \in 1..MaxTtl :
            \/ RoundTime(Num(n), precision)
            \/ RoundTime(Dt(n), precision)

SpecRound == Init /\ [][NextRound]_vars

\* One client that writes with the timestamp omitted while the clock may
\* advance between the tz_now() calls of one record_hit.
NextDrift ==
    \/ Writes(MaxWrites, {"c1"}, {Ev1, En1}, {1}, {Omit}, {TRUE},
              0..(2 * Len(granularities) - 1), {TRUE})
    \/ \E g \in Grans : GetTotalHits(Ev1, g, 1, None)

SpecDrift == Init /\ [][NextDrift]_vars

(***************************************************************************)
(* Properties.                                                             *)
(***************************************************************************)
\* The sum of f[x] over the x of S.
RECURSIVE SumOver(_, _)
SumOver(f, S) ==
    IF S = {} THEN 0
    ELSE LET x == CHOOSE y \in S : TRUE IN f[x] + SumOver(f, S \ {x})

\* The timestamps a read is asked for, and the counts a granularity allows.
ReadTimestamps == {None} \cup {Dt(tz_now(clock, pytz).v - ago) : ago \in 0..MaxAgo}
Allowed(g) == {n \in Counts : n * granularities[g].duration <= granularities[g].ttl}

\* What get_hits returns now.
Hits(key, g, count, timestamp) ==
    get_hits(store, key, g, count, timestamp, tz_now(clock, pytz), pytz)

Amounts_(r) == [i \in 1..Len(r.result) |-> r.result[i][2]]

\* The amount the store was sent for the series key at timestamps that round,
\* by the duration of g, to the bucket shown as the datetime b.
Written(key, g, b) ==
    SumOver(applied,
            {e \in DOMAIN applied :
                /\ e[1] = key
                /\ unix_to_dt(round_time(e[2], granularities[g].duration, None), pytz) = b})

\* C1: from an empty store and while no key has expired, after writes with
\* explicit timestamps (or with the timestamp omitted and resolved to one
\* instant), get_hits succeeds and pairs each bucket it returns
\* with the sum of the amounts written at timestamps rounding to that bucket:
\* 0 when there was none.
C1_BucketSums ==
    (~lost /\ ~implicit) =>
        \A key \in Series, g \in Grans, timestamp \in ReadTimestamps :
            \A count \in Allowed(g) :
                LET r == Hits(key, g, count, timestamp)
                IN  /\ r.err = ""
                    /\ \A i \in 1..Len(r.result) :
                           r.result[i][2] = Written(key, g, r.result[i][1])

\* A read has just returned a bucket with an amount, an empty one, and another
\* with an amount.
C1_Witness ==
    /\ last.op = "get_hits" /\ ~lost /\ ~implicit
    /\ \E key \in Series, g \in Grans :
           LET r == Hits(key, g, 3, None)
           IN  /\ Len(r.result) = 3
               /\ r.result[1][2] > 0 /\ r.result[2][2] = 0 /\ r.result[3][2] > 0

\* What get_total_hits returns now.
Total(key, g, count, timestamp) ==
    get_total_hits(store, key, g, count, timestamp, tz_now(clock, pytz), pytz)

\* The last call was a record_hit that the store, empty before it, applied at
\* once, the clock standing still.
FirstWrite ==
    /\ last.op = "record_hit" /\ last.err = "" /\ last.execute
    /\ last.fresh /\ ~last.drifted

\* C2: on an empty store, one record_hit(S, amt), executed at once at an
\* instant t (given, or the clock's, which stands still), is followed at the
\* same instant by get_total_hits(S, g, 1) = amt for every granularity g.
C2_FanOut ==
    FirstWrite =>
        \A g \in Grans :
            /\ Total(last.key, g, 1, last.timestamp).err = ""
            /\ Total(last.key, g, 1, last.timestamp).result = last.count

\* The one write, of amount 2, has just been made on the empty store.
C2_Witness ==
    /\ FirstWrite /\ last.count = 2 /\ last.timestamp = None
    /\ \A g \in Grans : Total(last.key, g, 1, None).result = 2

\* C3: for every granularity g and every count n with n * duration <= ttl,
\* whatever the store holds, get_hits returns n entries, oldest first, each
\* later than the one before by the duration of g.
C3_Shape ==
    \A key \in Series, g \in Grans, timestamp \in ReadTimestamps :
        \A count \in Allowed(g) :
            LET r == Hits(key, g, count, timestamp)
            IN  /\ r.err = ""
                /\ Len(r.result) = count
                /\ \A i \in 1..(count - 1) :
                       r.result[i + 1][1].v = r.result[i][1].v + granularities[g].duration

\* A read has just returned; a read of 3 buckets finds data in the last one only.
C3_Witness ==
    /\ last.op = "get_hits" /\ last.err = "" /\ last.trips = 1
    /\ \E key \in Series, g \in Grans :
           Amounts_(Hits(key, g, 3, None)) = <<0, 0, 1>>

\* The datetime get_hits shows for the bucket that holds the timestamp.
BucketOf(g, timestamp) ==
    unix_to_dt(round_time(timestamp, granularities[g].duration, tz_now(clock, pytz)), pytz)

\* C4: the window of get_hits(S, g, n, t) is the n buckets up to and including
\* the one that holds t; so right after a first write at w, a read at
\* w + duration does not count it with n = 1 and counts it with n = 2.
C4_Window ==
    /\ \A key \in Series, g \in Grans, timestamp \in ReadTimestamps :
           \A count \in Allowed(g) \ {0} :
               LET r == Hits(key, g, count, timestamp)
               IN  /\ r.result[count][1] = BucketOf(g, timestamp)
                   /\ r.result[1][1].v =
                          BucketOf(g, timestamp).v - (count - 1) * granularities[g].duration
    /\ FirstWrite =>
           \A g \in Grans :
               LET w == IF last.timestamp = None THEN tz_now(clock, pytz) ELSE last.timestamp
                   t == Dt(w.v + granularities[g].duration)
               IN  /\ Total(last.key, g, 1, t).result = 0
                   /\ Total(last.key, g, 2, t).result = last.count

\* A first write was just made at an explicit timestamp in the past: the read
\* at the clock's time misses it with a count of 1 and finds it with 2.
C4_Witness ==
    /\ FirstWrite /\ last.timestamp # None
    /\ \E g \in Grans :
           /\ Total(last.key, g, 1, None).result = 0
           /\ Total(last.key, g, 2, None).result = last.count

\* C5: get_hits and scan_keys called with count * duration > ttl raise the
\* range error (ValueError) without a round trip to the store, and leave the
\* store and the pending chain as they were.
C5_RangeError ==
    [][(last'.op \in {"get_hits", "scan_keys"} /\ last'.exceeds)
          => /\ last'.err = "ValueError"
             /\ last'.trips = 0
             /\ store' = store
             /\ chain' = chain]_vars

\* A scan over too many buckets has just failed, the store holding data.
C5_Witness ==
    /\ last.op = "scan_keys" /\ last.exceeds /\ last.err = "ValueError"
    /\ store # <<>>

\* What scan_keys returns now.
Scan(g, count, search, timestamp) ==
    scan_keys(store, g, count, search, timestamp, tz_now(clock, pytz))

\* The series that match the pattern and have a live key of granularity g for
\* the shard of one of the count buckets up to the one that holds timestamp.
Live(g, count, search, timestamp) ==
    LET now == tz_now(clock, pytz)
        newest == round_time(timestamp, granularities[g].duration, now)
        window == {newest - i * granularities[g].duration : i \in 0..(count - 1)}
    IN  {name \in Series :
            /\ GlobMatch(search, name)
            /\ \E b \in window : get_key(name, Num(b), g, now) \in DOMAIN store}

\* C10: scan_keys(g, count, pattern) returns, in increasing order, the bare
\* names of exactly the series that match the pattern and have a live key of
\* granularity g in a shard of the count most recent buckets.
C10_Scan ==
    \A g \in Grans, search \in Searches, timestamp \in ReadTimestamps :
        \A count \in Allowed(g) \ {0} :
            LET r == Scan(g, count, search, timestamp)
            IN  /\ r.err = ""
                /\ {r.result[i] : i \in 1..Len(r.result)} = Live(g, count, search, timestamp)
                /\ \A i \in 1..(Len(r.result) - 1) : StrLess(r.result[i], r.result[i + 1])

\* The three series are recorded and a scan has just returned: the scan of the
\* newest bucket for ev:* gives ev:1 and ev:2, in this order, and not en:1.
C10_Witness ==
    /\ last.op = "scan_keys" /\ last.err = ""
    /\ \A name \in Series : \E k \in DOMAIN store : GlobMatch(<<"*">> \o name, k)
    /\ Scan(1, 1, <<"e", "v", ":", "*">>, None).result = <<Ev1, Ev2>>

\* What get_hits would return from the store st.
HitsIn(st, key, g, count, timestamp) ==
    get_hits(st, key, g, count, timestamp, tz_now(clock, pytz), pytz).result

\* Every bucket of every series and granularity reads the same from the store
\* as from the store that every record_hit was executed on at once.
SameTotals ==
    \A key \in Series, g \in Grans, timestamp \in ReadTimestamps :
        \A count \in Allowed(g) :
            HitsIn(store, key, g, count, timestamp) = HitsIn(imm, key, g, count, timestamp)

\* execute() has just submitted the chain, and no write is pending.
Flushed ==
    /\ last.op = "execute" /\ last.err = ""
    /\ \A c \in Clients : chain[c] = <<>>

\* C6, as stated: once the deferred writes are flushed by execute(), every
\* bucket total is what it is had the same writes been executed at once.
C6_AsStated == Flushed => SameTotals

\* C6: once the deferred writes are flushed by execute(), and provided no key
\* has expired (in the store, or in the one the writes were executed on at
\* once), every bucket total of every series and granularity is what it is
\* had the same writes been executed at once.
C6_Deferred == (Flushed /\ ~lost) => SameTotals

\* Two deferred writes, to different series, have just been flushed, the clock
\* having advanced since the store was empty, and no key has expired.
C6_Witness ==
    /\ Flushed /\ ~lost /\ last.count = 2 /\ last.trips = 1
    /\ clock > StartClock
    /\ \A key \in {Ev1, En1} : \E k \in DOMAIN store : GlobMatch(<<"*">> \o key, k)

\* The keys of the series key.
KeysOf(st, key) == {k \in DOMAIN st : GlobMatch(<<"*", ":">> \o key, k)}

\* C7: a record_hit with execute=False leaves the store as it is, so that
\* every read and scan returns what it returned before, and a record_hit
\* executed at once leaves the chain as it is and changes no key of another
\* series: it does not submit the pending writes.
C7_Pending ==
    /\ [][(last'.op = "record_hit" /\ ~last'.execute)
              => (store' = store /\ clock' = clock)]_vars
    /\ [][(last'.op = "record_hit" /\ last'.execute /\ last'.err = "")
              => /\ chain' = chain
                 /\ \A k \in (DOMAIN store \cup DOMAIN store') \ KeysOf(store', last'.key) :
                        k \in DOMAIN store /\ k \in DOMAIN store' /\ store'[k] = store[k]]_vars

\* A write of ev:1 waits in the chain while a write of en:1 has just been
\* executed at once: the store holds en:1 only.
C7_Witness ==
    /\ last.op = "record_hit" /\ last.execute /\ last.key = En1
    /\ Len(queued["c1"]) = 1 /\ queued["c1"][1].key = Ev1
    /\ KeysOf(store, Ev1) = {} /\ KeysOf(store, En1) # {}

\* The prefix of the keys of granularity g.
GranPrefix(g) == Join(<<":">>, <<base_key, granularities[g].name, <<>>>>)

\* The sum of all the buckets the store holds for the series key at
\* granularity g.
TotalOf(st, key, g) ==
    LET ks == {k \in KeysOf(st, key) : StartsWith(k, GranPrefix(g))}
        held == UNION {{<<k, f>> : f \in DOMAIN st[k].hash} : k \in ks}
    IN  SumOver([e \in held |-> st[e[1]].hash[e[2]]], held)

\* C8: the commands of one record_hit, or of one execute(), are applied as
\* one unit: while no key has expired, every state another client can observe
\* holds the same total of a series at every granularity, and a submission
\* that raises leaves the store as it was.
C8_Atomic ==
    /\ [](~lost => \A key \in Series : \A g1, g2 \in Grans :
                        TotalOf(store, key, g1) = TotalOf(store, key, g2))
    /\ [][(last'.op \in {"record_hit", "execute"} /\ last'.err # "")
              => store' = store]_vars

\* The granularity of a key of the store.
GranOf(k) == CHOOSE g \in Grans : StartsWith(k, GranPrefix(g))

\* C9: every key of the store has an expiry, at most the ttl of its
\* granularity away; a record_hit executed at once leaves each key it adds to
\* with exactly that ttl to live; and a key leaves the store only when its
\* expiry time has come.
C9_Lifetime ==
    /\ [](\A k \in DOMAIN store :
              /\ store[k].exp # NoExpiry
              /\ store[k].exp[1] > clock
              /\ store[k].exp[1] <= clock + granularities[GranOf(k)].ttl)
    /\ [][(last'.op = "record_hit" /\ last'.execute /\ last'.err = "")
              => \A k \in KeysOf(store', last'.key) :
                     (k \in DOMAIN store => store'[k].hash # store[k].hash)
                         => store'[k].exp = <<clock' + granularities[GranOf(k)].ttl>>]_vars
    /\ [][\A k \in DOMAIN store \ DOMAIN store' : store[k].exp[1] <= clock']_vars

\* A key written before the clock advanced has just been written again: it
\* has its whole ttl to live again.
C9_Witness ==
    /\ last.op = "record_hit" /\ last.execute /\ nWrites = 2 /\ clock > StartClock
    /\ \E k \in KeysOf(store, last.key) :
           /\ Cardinality(DOMAIN store[k].hash) = 2
           /\ store[k].exp = <<clock + granularities[GranOf(k)].ttl>>

\* The clock as every tz_now() of one call reads it when it stands still.
Still == [i \in 1..(2 * Len(granularities)) |-> clock]

\* The store after increase(key, amount, timestamp) and then
\* decrease(key, amount, timestamp), both executed now.
UpAndDown(key, amount, timestamp) ==
    LET up == ApplyAll(store, record_hit_cmds(key, timestamp, amount, Still, pytz), clock)
    IN  ApplyAll(up, decrease_cmds(key, timestamp, amount, Still, pytz), clock)

\* get_total_hits from the store st.
TotalIn(st, key, g, count, timestamp) ==
    get_total_hits(st, key, g, count, timestamp, tz_now(clock, pytz), pytz).result

C12_Total ==
    \A key \in Series, g \in Grans, timestamp \in ReadTimestamps, count \in Counts :
        LET h == Hits(key, g, count, timestamp)
            t == Total(key, g, count, timestamp)
        IN  /\ t.err = h.err
            /\ h.err = "" =>
                   t.result = SumOver([i \in 1..Len(h.result) |-> h.result[i][2]],
                                      1..Len(h.result))

\* get_total_hits has just returned; over the 3 newest buckets of a series,
\* holding 1, 0 and 2, it returns 3.
C12_Witness ==
    /\ last.op = "get_total_hits" /\ last.err = ""
    /\ \E key \in Series, g \in Grans :
           /\ Amounts_(Hits(key, g, 3, None)) = <<1, 0, 2>>
           /\ Total(key, g, 3, None).result = 3

\* C13: get_hits, get_total_hits and scan_keys called with a name that is
\* not in the granularity table raise the dictionary's KeyError without a
\* round trip to the store, and leave the store and the pending chain as
\* they were.
C13_UnknownGranularity ==
    [][(last'.op \in {"get_hits", "get_total_hits", "scan_keys"} /\ last'.unknown)
          => /\ last'.err = "KeyError"
             /\ last'.trips = 0
             /\ store' = store
             /\ chain' = chain]_vars

\* A read by an unknown name has just failed, a write waiting in the chain
\* and the store holding data.
C13_Witness ==
    /\ last.op = "get_total_hits" /\ last.unknown /\ last.err = "KeyError"
    /\ store # <<>> /\ chain["c1"] # <<>>

InstantOf(dt) ==
    IF dt.k = "dt" /\ ~pytz THEN dt.v - LocalOffset ELSE dt.v

\* C15: round_time(t, p) is a multiple of p, not after t and less than p
\* before it, and rounding it again to p returns it.
C15_Idempotent ==
    last.op = "round_time" =>
        LET p == last.count
            r == last.value
            t == InstantOf(last.timestamp)
        IN  /\ round_time(Num(r), p, tz_now(clock, pytz)) = r
            /\ r % p = 0
            /\ r <= t /\ r > t - p

\* C16: a record_hit with the timestamp omitted writes what a write at one
\* instant writes, also when the clock advances during the call: right after
\* such a write on an empty store, the store is the one a single reading of
\* the clock gives; and every field of every key lies in the ttl window of
\* the key it is stored under.
C16_OneInstant ==
    /\ (last.op = "record_hit" /\ last.err = "" /\ last.fresh /\ last.timestamp = None)
           => \E t \in {clock - 1, clock} :
                  store = ApplyAll(<<>>,
                                   record_hit_cmds(last.key, None, last.count,
                                       [i \in 1..(2 * Len(granularities)) |-> t], pytz),
                                   clock)
    /\ \A key \in Series, g \in Grans :
           \A k \in {x \in KeysOf(store, key) : GranOf(x) = g} :
               \A b \in DOMAIN store[k].hash :
                   get_key(key, Num(b), g, tz_now(clock, pytz)) = k

\* The number a sequence of digits writes.
RECURSIVE NatOf(_)
NatOf(ds) ==
    IF ds = <<>> THEN 0
    ELSE 10 * NatOf(SubSeq(ds, 1, Len(ds) - 1))
         + (CHOOSE d \in 0..9 : Digits[d + 1] = ds[Len(ds)])

\* The shard epoch in the name of a key of granularity g: the digits between
\* the prefix of g and the next colon.
EpochOf(k, g) ==
    LET rest == SubSeq(k, Len(GranPrefix(g)) + 1, Len(k))
        colon == CHOOSE i \in 1..Len(rest) : rest[i] = ":" /\ \A j \in 1..(i - 1) : rest[j] # ":"
    IN  NatOf(SubSeq(rest, 1, colon - 1))

\* The granularities whose ttl is a multiple of the duration.
Even == {g \in Grans : granularities[g].ttl % granularities[g].duration = 0}

\* C17: for a granularity whose ttl is a multiple of its duration, the key a
\* write at an explicit instant t uses is the key a read uses for the bucket
\* of t; every field b of a key with shard epoch E has b rounded down to the
\* ttl equal to E, and is stored under the key a read of bucket b asks for.
C17_KeyAgreement ==
    /\ \A g \in Even, t \in ReadTimestamps \ {None} :
           LET now == tz_now(clock, pytz)
               b == round_time(t, granularities[g].duration, now)
           IN  get_key(Ev1, t, g, now) = get_key(Ev1, Num(b), g, now)
    /\ \A key \in Series, g \in Even :
           \A k \in {x \in KeysOf(store, key) : GranOf(x) = g} :
               \A b \in DOMAIN store[k].hash :
                   /\ EpochOf(k, g) = (b \div granularities[g].ttl) * granularities[g].ttl
                   /\ get_key(key, Num(b), g, tz_now(clock, pytz)) = k
                   /\ HGet(store, get_key(key, Num(b), g, tz_now(clock, pytz)), b)
                          = <<store[k].hash[b]>>

\* A write at an explicit instant has just been made and a key holds two
\* buckets of its series.
C17_Witness ==
    /\ last.op = "record_hit" /\ last.err = "" /\ last.timestamp # None
    /\ \E k \in KeysOf(store, last.key) : Cardinality(DOMAIN store[k].hash) = 2

\* The positions of the bucket of the instant t in what a read returned.
Holding(r, g, t) ==
    {i \in 1..Len(r.result) :
        r.result[i][1] = unix_to_dt(round_time(t, granularities[g].duration, None), pytz)}

\* C18: a write made with a timestamp not later than the clock is not lost to
\* expiry while a read can ask for it: whenever get_hits(S, g, count), with an
\* allowed count and the timestamp omitted, returns the write's bucket, the key
\* the write went to is still in the store and the amount returned is the sum
\* of the amounts written to the bucket.
C18_Retention ==
    \A e \in DOMAIN applied, g \in Grans :
        \A count \in Allowed(g) :
            LET r == Hits(e[1], g, count, None)
            IN  \A i \in Holding(r, g, e[2]) :
                    /\ get_key(e[1], e[2], g, None) \in DOMAIN store
                    /\ r.result[i][2] = Written(e[1], g, r.result[i][1])
                    /\ r.result[i][2] >= applied[e]

\* A key has expired, and a read of the longest window still returns, as its
\* oldest bucket, the bucket of a write made before the clock's time.
C18_Witness ==
    /\ lost /\ last.op = "tick"
    /\ \E e \in DOMAIN applied, g \in Grans :
           LET count == granularities[g].ttl \div granularities[g].duration
           IN  /\ 1 \in Holding(Hits(e[1], g, count, None), g, e[2])
               /\ Hits(e[1], g, count, None).result[1][2] > 0

\* The commands of the deferred writes ws, in their order.
RECURSIVE CmdsOf(_)
CmdsOf(ws) ==
    IF ws = <<>> THEN <<>>
    ELSE record_hit_cmds(Head(ws).key, Head(ws).timestamp, Head(ws).count,
                         [i \in 1..(2 * Len(granularities)) |-> clock], pytz)
         \o CmdsOf(Tail(ws))

\* C19: every deferred write is applied exactly once.  The chain holds the
\* commands of the writes deferred since the last execute(), in their order,
\* and of no other; execute() applies the chain's commands in order and leaves
\* an empty chain; an execute() right after an execute() changes nothing in the
\* store; and while no key has expired and nothing waits in the chain, every
\* bucket reads the sum of the amounts written to it.
C19_ExactlyOnce ==
    /\ [](\A c \in Clients : chain[c] = CmdsOf(queued[c]))
    /\ [][(last'.op = "execute" /\ last'.err = "")
              => \E c \in Clients :
                     /\ store' = ApplyAll(store, chain[c], clock)
                     /\ chain' = [chain EXCEPT ![c] = <<>>]]_vars
    /\ [][(last.op = "execute" /\ last'.op = "execute") => store' = store]_vars
    /\ [](( /\ ~lost /\ ~implicit /\ ~failed
            /\ \A c \in Clients : queued[c] = <<>>)
              => \A key \in Series, g \in Grans :
                     \A count \in Allowed(g) :
                         LET r == Hits(key, g, count, None)
                         IN  \A i \in 1..Len(r.result) :
                                 r.result[i][2] = Written(key, g, r.result[i][1]))

\* execute() has just found the chain empty, both writes being in the store
\* and at least one of them flushed by an earlier execute().
C19_Witness ==
    /\ last.op = "execute" /\ last.count = 0 /\ last.trips = 0
    /\ ~lost /\ nWrites = 2 /\ imm # store
    /\ SumOver(applied, DOMAIN applied) = 2

\* The amount the store holds for the series key in the bucket b of
\* granularity g: 0 when no key holds the field.
StoredAt(st, key, g, b) ==
    LET ks == {k \in KeysOf(st, key) : GranOf(k) = g /\ b \in DOMAIN st[k].hash}
    IN  SumOver([k \in ks |-> st[k].hash[b]], ks)

\* C20: writes commute and none is lost.  Whatever the order in which the
\* clients' submissions reached the store, and while no key has expired, every
\* bucket of every series and granularity holds the sum of the amounts of the
\* submitted writes whose timestamp rounds to it: the amounts depend on the
\* set of writes only.
C20_Commute ==
    ~lost =>
        \A key \in Series, g \in Grans, b \in 0..(StartClock + MaxTicks) :
            StoredAt(store, key, g, b)
                = SumOver(applied,
                          {e \in DOMAIN applied :
                              /\ e[1] = key
                              /\ round_time(e[2], granularities[g].duration, None) = b})

\* An execute() has just flushed one deferred write, and a bucket holds the
\* amounts of both writes, 1 and 2.
C20_Witness ==
    /\ last.op = "execute" /\ last.err = "" /\ last.count = 1 /\ ~lost
    /\ \E e \in DOMAIN applied : applied[e] = 3 /\ e[1] = Ev1
    /\ \E k \in KeysOf(store, Ev1) : \E b \in DOMAIN store[k].hash : store[k].hash[b] = 3

====
